---- MODULE Spec2Model ----
(***************************************************************************)
(* The Kafka-backed chain driver of orderer/kafka/orderer.go: construction *)
(* (HandleChain / newChain), Start, Halt, Enqueue, the event loop and its  *)
(* deferred cleanup, for one or more orderer replicas of one channel that  *)
(* share the channel's broker partition.                                   *)
(*                                                                         *)
(* Goroutines are interleaved at the granularity of their accesses to      *)
(* shared state: the unsynchronised reads and writes of ch.halted and the  *)
(* select/close pair of Halt are separate steps, so every ordering the     *)
(* scheduler can produce for them is a behaviour of the model.             *)
(***************************************************************************)
EXTENDS Integers, Sequences, FiniteSets, TLC

VARIABLES
    partition,            \* the broker partition: sequence of KafkaMessage, offset o at index o + 1
    logCap,               \* number of messages the partition holds at most (never changes)
    lastOffsetPersisted,  \* chainImpl.lastOffsetPersisted, per replica
    lastCutBlock,         \* chainImpl.lastCutBlock, per replica
    halted,               \* chainImpl.halted, per replica
    exitChan,             \* chainImpl.exitChan: "open" or "closed"
    haltedChan,           \* chainImpl.haltedChan: "open" or "closed"
    setupChan,            \* chainImpl.setupChan: "open" or "closed"
    producer,             \* chainImpl.producer: "open" or "closed"
    consumer,             \* chainImpl.consumer: "nil", "open" or "closed"
    nextOff,              \* offset of the next message the consumer delivers
    timer,                \* loop's timer: TRUE when a batch timer is pending
    timerStart,           \* offset of the message at which time.After was last called, -1 if never
    pending,              \* the block cutter's pending batch (support.BlockCutter())
    batches,              \* loop's batches still to be written by the range loop it is in
    ledger,               \* the channel ledger of the replica: sequence of blocks
    startPc,              \* position of the goroutine running Start
    loopPc,               \* position of the goroutine running loop
    deferred,             \* loop's stack of deferred calls, next to run first
    haltPc,               \* position of every caller of Halt
    enqPc,                \* position of every caller of Enqueue
    haltReturned,         \* history: some call of Halt has returned
    enqAfterHalt,         \* history: the caller's current Enqueue began after Start and a Halt had returned
    enqAfterHaltedChan,   \* history: the caller's current Enqueue began with haltedChan closed
    sentWhileHalted,      \* history: a producer.Send succeeded while halted was true
    panicBy,              \* "none", or the function whose close(exitChan) hit a closed channel
    listenPc,             \* position of the goroutine running listenForErrors
    errors,               \* number of errors waiting on consumer.Errors()
    timerSendFailed       \* history: the loop's last case was a timer expiry whose Send failed

vars == <<partition, logCap, lastOffsetPersisted, lastCutBlock, halted, exitChan, haltedChan,
          setupChan, producer, consumer, nextOff, timer, pending, ledger, startPc,
          loopPc, deferred, haltPc, enqPc, haltReturned, enqAfterHalt,
          enqAfterHaltedChan, sentWhileHalted, panicBy, timerStart, listenPc, errors,
          timerSendFailed, batches>>

(***************************************************************************)
(* Bounds of the model.                                                    *)
(***************************************************************************)
MaxLog == 4          \* messages the partition holds at most, under Spec
MaxLogConc == 3      \* the same, under SpecConc
MaxLogReplicas == 5  \* the same, under SpecReplicas
MaxLogRestart == 5   \* the same, under SpecRestart
MaxLogIngress == 4   \* the same, under SpecIngress
MaxLogErrors == 2    \* the same, under SpecErrors
MaxTTC == 2          \* largest block number of a TimeToCut another orderer posts
MaxErrors == 2       \* errors the consumer emits at most

(***************************************************************************)
(* sarama's offset sentinel, and the batch configuration of the channel.   *)
(***************************************************************************)
OffsetOldest == -2
MaxMessageCount == 3
PreferredMaxBytes == 3

(***************************************************************************)
(* Messages on the partition (ab.KafkaMessage) and client envelopes.       *)
(* An envelope is one of: "a" (1 byte), "b" (2 bytes), "cfg" (a config     *)
(* transaction, which the filters isolate), "bad" (rejected by the         *)
(* filters); the payload "junk" does not unmarshal to an envelope.         *)
(***************************************************************************)
Envelopes == {"a", "b", "cfg", "bad"}
Payloads == Envelopes \cup {"junk"}

newConnectMessage == [type |-> "Connect", num |-> 0, payload |-> ""]
newTimeToCutMessage(n) == [type |-> "TimeToCut", num |-> n, payload |-> ""]
newRegularMessage(p) == [type |-> "Regular", num |-> 0, payload |-> p]

OffsetOf(i) == i - 1

(***************************************************************************)
(* The block cutter behind support.BlockCutter(): filters, isolation of    *)
(* configuration transactions, a byte budget and a message count.          *)
(***************************************************************************)
messageSizeBytes(env) == IF env = "b" THEN 2 ELSE 1

Isolated(env) == env = "cfg"

FiltersAccept(env) == env # "bad"

RECURSIVE BatchSizeBytes(_)
BatchSizeBytes(batch) ==
    IF batch = <<>> THEN 0
    ELSE messageSizeBytes(Head(batch)) + BatchSizeBytes(Tail(batch))

\* BlockCutter().Cut(): the pending batch, which becomes empty.
Cut(pend) == [batch |-> pend, pending |-> <<>>]

\* BlockCutter().Ordered(env): the batches cut, the pending batch left, and ok.
Ordered(pend, env) ==
    IF ~FiltersAccept(env)
    THEN [batches |-> <<>>, pending |-> pend, ok |-> FALSE]
    ELSE IF Isolated(env) \/ messageSizeBytes(env) > PreferredMaxBytes
    THEN [batches |-> (IF Len(pend) > 0 THEN <<pend>> ELSE <<>>) \o << <<env>> >>,
          pending |-> <<>>, ok |-> TRUE]
    ELSE LET overflow == BatchSizeBytes(pend) + messageSizeBytes(env) > PreferredMaxBytes
             first    == IF overflow THEN <<pend>> ELSE <<>>
             grown    == (IF overflow THEN <<>> ELSE pend) \o <<env>>
             full     == Len(grown) >= MaxMessageCount
         IN  [batches |-> first \o (IF full THEN <<grown>> ELSE <<>>),
              pending |-> IF full THEN <<>> ELSE grown,
              ok |-> TRUE]

(***************************************************************************)
(* The ledger side of the support interface.  A block records its number,  *)
(* its envelopes and its orderer metadata: <<>> when the slot is absent,   *)
(* <<k>> for the marshalled KafkaMetadata{LastOffsetPersisted: k}.         *)
(***************************************************************************)
GenesisBlock == [number |-> 0, envs |-> <<>>, meta |-> <<>>]

Height(ldg) == Len(ldg)

CreateNextBlock(ldg, batch) == [number |-> Len(ldg), envs |-> batch, meta |-> <<>>]

MarshalKafkaMetadata(off) == <<off>>

WriteBlock(ldg, block, meta) == Append(ldg, [block EXCEPT !.meta = meta])

\* The metadata of the most recent block, as handed to HandleChain.
TipMetadata(ldg) == ldg[Len(ldg)].meta

(***************************************************************************)
(* HandleChain / getLastOffsetPersisted / newChain.                        *)
(***************************************************************************)
getLastOffsetPersisted(meta) ==
    IF meta # <<>> THEN meta[1] ELSE OffsetOldest - 1

\* Faulty variant of ConsumerStartOffset: the consumer is created at lastOffsetPersisted.
ConsumerStartOffsetSame(lop) == lop

\* The offset Start hands to the consumer constructor.
ConsumerStartOffset(lop) == lop + 1

\* newConsumer: OffsetOldest means the oldest retained message (offset 0 here).
ResolveOffset(off) == IF off = OffsetOldest THEN 0 ELSE off

(***************************************************************************)
(* The body of loop's consumer case, on the loop's state                   *)
(* st = [lcb, timer, timerStart, pending, batches, ledger, run]: run        *)
(* becomes FALSE when the case returns from loop; batches holds what the   *)
(* range loop of the Regular case has still to write.                      *)
(***************************************************************************)
\* One WriteBlock followed by ch.lastCutBlock++.
CutBlock(st, batch, off) ==
    [st EXCEPT !.ledger = WriteBlock(st.ledger, CreateNextBlock(st.ledger, batch),
                                     MarshalKafkaMetadata(off)),
               !.lcb = st.lcb + 1]

\* Faulty variant of RangePass: ch.lastCutBlock++ placed after the range loop.
RangePassOneIncrement(st, off) ==
    [st EXCEPT !.ledger = WriteBlock(st.ledger, CreateNextBlock(st.ledger, Head(st.batches)),
                                     MarshalKafkaMetadata(off)),
               !.lcb = IF Tail(st.batches) = <<>> THEN st.lcb + 1 ELSE st.lcb,
               !.batches = Tail(st.batches)]

\* One pass of "for i, batch := range batches": WriteBlock, ch.lastCutBlock++.
RangePass(st, off) ==
    [CutBlock(st, Head(st.batches), off) EXCEPT !.batches = Tail(st.batches)]

\* The range loop up to the return of its next WriteBlock; past the last pass,
\* "if len(batches) > 0 { timer = nil }".  With no batches the loop is skipped.
RangeStep(st, off) ==
    IF st.batches = <<>> THEN st
    ELSE LET s == RangePass(st, off)
         IN  IF s.batches = <<>> THEN [s EXCEPT !.timer = FALSE] ELSE s

\* Faulty variant of OnConnect: the Connect case falls into the TimeToCut case's
\* "timer = nil".
OnConnectClearsTimer(st, m, off) == [st EXCEPT !.timer = FALSE]

OnConnect(st, m, off) == st

\* Faulty variant of OnTimeToCut: the cut leaves the timer pending.
OnTimeToCutKeepsTimer(st, m, off) ==
    IF m.num = st.lcb + 1
    THEN LET c == Cut(st.pending)
             s1 == [st EXCEPT !.pending = c.pending]
         IN  IF Len(c.batch) = 0
             THEN [s1 EXCEPT !.run = FALSE]
             ELSE CutBlock(s1, c.batch, off)
    ELSE IF m.num > st.lcb + 1
    THEN [st EXCEPT !.run = FALSE]
    ELSE st

\* Faulty variant of OnTimeToCut: a larger block number is ignored like a stale one.
OnTimeToCutIgnoresLarger(st, m, off) ==
    IF m.num = st.lcb + 1
    THEN LET c == Cut(st.pending)
             s1 == [st EXCEPT !.timer = FALSE, !.pending = c.pending]
         IN  IF Len(c.batch) = 0
             THEN [s1 EXCEPT !.run = FALSE]
             ELSE CutBlock(s1, c.batch, off)
    ELSE st

\* Faulty variant of OnTimeToCut: the first comparison is <= instead of ==.
OnTimeToCutStaleCuts(st, m, off) ==
    IF m.num <= st.lcb + 1
    THEN LET c == Cut(st.pending)
             s1 == [st EXCEPT !.timer = FALSE, !.pending = c.pending]
         IN  IF Len(c.batch) = 0
             THEN [s1 EXCEPT !.run = FALSE]
             ELSE CutBlock(s1, c.batch, off)
    ELSE [st EXCEPT !.run = FALSE]

OnTimeToCut(st, m, off) ==
    IF m.num = st.lcb + 1
    THEN LET c == Cut(st.pending)
             s1 == [st EXCEPT !.timer = FALSE, !.pending = c.pending]
         IN  IF Len(c.batch) = 0
             THEN [s1 EXCEPT !.run = FALSE]
             ELSE CutBlock(s1, c.batch, off)
    ELSE IF m.num > st.lcb + 1
    THEN [st EXCEPT !.run = FALSE]
    ELSE st

\* Faulty variant of OnRegular: time.After is called without the test timer == nil.
OnRegularRestartsTimer(st, m, off) ==
    IF m.payload \notin Envelopes
    THEN st
    ELSE LET o  == Ordered(st.pending, m.payload)
             s1 == [st EXCEPT !.pending = o.pending]
         IN  IF o.ok /\ Len(o.batches) = 0
             THEN [s1 EXCEPT !.timer = TRUE, !.timerStart = off]
             ELSE [s1 EXCEPT !.batches = o.batches]

\* Faulty variant of OnRegular: the timer is started whenever the envelope is accepted
\* and no timer is pending, without the test len(batches) == 0.
OnRegularTimerFirst(st, m, off) ==
    IF m.payload \notin Envelopes
    THEN st
    ELSE LET o  == Ordered(st.pending, m.payload)
             s1 == [st EXCEPT !.pending = o.pending]
         IN  IF o.ok /\ ~st.timer
             THEN [s1 EXCEPT !.timer = TRUE, !.timerStart = off]
             ELSE [s1 EXCEPT !.batches = o.batches]

OnRegular(st, m, off) ==
    IF m.payload \notin Envelopes
    THEN st
    ELSE LET o  == Ordered(st.pending, m.payload)
             s1 == [st EXCEPT !.pending = o.pending]
         IN  IF o.ok /\ Len(o.batches) = 0 /\ ~st.timer
             THEN [s1 EXCEPT !.timer = TRUE, !.timerStart = off]
             ELSE [s1 EXCEPT !.batches = o.batches]

Handle(st, m, off) ==
    CASE m.type = "Connect"   -> OnConnect(st, m, off)
      [] m.type = "TimeToCut" -> OnTimeToCut(st, m, off)
      [] m.type = "Regular"   -> OnRegular(st, m, off)

(***************************************************************************)
(* State after construction: HandleChain on a ledger ldg.                  *)
(***************************************************************************)
Replicas == DOMAIN lastCutBlock

HaltCallers(r) == DOMAIN haltPc[r]

EnqueueCallers(r) == DOMAIN enqPc[r]

InitWith(R, H, E, cap) ==
    /\ partition = <<>>
    /\ logCap = cap
    /\ ledger = [r \in R |-> <<GenesisBlock>>]
    /\ lastOffsetPersisted = [r \in R |-> getLastOffsetPersisted(TipMetadata(<<GenesisBlock>>))]
    /\ lastCutBlock = [r \in R |-> Height(<<GenesisBlock>>) - 1]
    /\ halted = [r \in R |-> FALSE]
    /\ exitChan = [r \in R |-> "open"]
    /\ haltedChan = [r \in R |-> "open"]
    /\ setupChan = [r \in R |-> "open"]
    /\ producer = [r \in R |-> "open"]
    /\ consumer = [r \in R |-> "nil"]
    /\ nextOff = [r \in R |-> 0]
    /\ timer = [r \in R |-> FALSE]
    /\ pending = [r \in R |-> <<>>]
    /\ batches = [r \in R |-> <<>>]
    /\ startPc = [r \in R |-> "init"]
    /\ loopPc = [r \in R |-> "none"]
    /\ deferred = [r \in R |-> <<>>]
    /\ haltPc = [r \in R |-> [c \in H |-> "idle"]]
    /\ enqPc = [r \in R |-> [c \in E |-> "idle"]]
    /\ haltReturned = [r \in R |-> FALSE]
    /\ enqAfterHalt = [r \in R |-> [c \in E |-> FALSE]]
    /\ enqAfterHaltedChan = [r \in R |-> [c \in E |-> FALSE]]
    /\ sentWhileHalted = [r \in R |-> FALSE]
    /\ panicBy = [r \in R |-> "none"]
    /\ timerStart = [r \in R |-> -1]
    /\ listenPc = [r \in R |-> "none"]
    /\ errors = [r \in R |-> 0]
    /\ timerSendFailed = [r \in R |-> FALSE]

\* A panic ends the orderer process: none of its goroutines takes another step.
Alive(r) == panicBy[r] = "none"

(***************************************************************************)
(* producer.Send: appends the message to the partition, or fails.  A       *)
(* closed producer always fails.                                           *)
(***************************************************************************)
SendOk(r, m) ==
    /\ producer[r] = "open"
    /\ Len(partition) < logCap
    /\ partition' = Append(partition, m)
    /\ sentWhileHalted' = [sentWhileHalted EXCEPT ![r] = @ \/ halted[r]]

SendFails == UNCHANGED <<partition, sentWhileHalted>>

(***************************************************************************)
(* Start                                                                   *)
(***************************************************************************)
StartConnect(r) ==
    /\ Alive(r) /\ startPc[r] = "init"
    /\ \/ SendOk(r, newConnectMessage) /\ startPc' = [startPc EXCEPT ![r] = "connected"]
       \/ SendFails /\ startPc' = [startPc EXCEPT ![r] = "failClose"]
    /\ UNCHANGED <<logCap, batches, timerStart, timerSendFailed, listenPc, errors,
                   lastOffsetPersisted, lastCutBlock, halted, exitChan, haltedChan,
                   setupChan, producer, consumer, nextOff, timer, pending, ledger,
                   loopPc, deferred, haltPc, enqPc, haltReturned, enqAfterHalt,
                   enqAfterHaltedChan, panicBy>>

\* Faulty variant of DeferredCalls: close(ch.haltedChan) is deferred last, so runs first.
DeferredCallsHaltedChanFirst == <<"haltedChan", "consumer.Close", "halted", "producer.Close">>

\* The calls loop defers (lines 243-246), in the order they run on return.
DeferredCalls == <<"consumer.Close", "halted", "producer.Close", "haltedChan">>

StartConsumer(r) ==
    /\ Alive(r) /\ startPc[r] = "connected"
    /\ \/ /\ consumer' = [consumer EXCEPT ![r] = "open"]
          /\ nextOff' = [nextOff EXCEPT
                           ![r] = ResolveOffset(ConsumerStartOffset(lastOffsetPersisted[r]))]
          /\ setupChan' = [setupChan EXCEPT ![r] = "closed"]
          /\ loopPc' = [loopPc EXCEPT ![r] = "select"]
          /\ deferred' = [deferred EXCEPT ![r] = DeferredCalls]
          /\ timer' = [timer EXCEPT ![r] = FALSE]
          /\ listenPc' = [listenPc EXCEPT ![r] = "select"]
          /\ startPc' = [startPc EXCEPT ![r] = "done"]
       \/ /\ startPc' = [startPc EXCEPT ![r] = "failClose"]
          /\ UNCHANGED <<consumer, nextOff, setupChan, loopPc, deferred, timer, listenPc>>
    /\ UNCHANGED <<partition, logCap, batches, timerStart, timerSendFailed, errors,
                   lastOffsetPersisted, lastCutBlock, halted, exitChan,
                   haltedChan, producer, pending, ledger, haltPc, enqPc, haltReturned,
                   enqAfterHalt, enqAfterHaltedChan, sentWhileHalted, panicBy>>

\* close(ch.exitChan) on Start's failure paths; closing a closed channel panics.
StartFailClose(r) ==
    /\ Alive(r) /\ startPc[r] = "failClose"
    /\ IF exitChan[r] = "closed"
       THEN /\ panicBy' = [panicBy EXCEPT ![r] = "Start"]
            /\ UNCHANGED <<exitChan, startPc>>
       ELSE /\ exitChan' = [exitChan EXCEPT ![r] = "closed"]
            /\ startPc' = [startPc EXCEPT ![r] = "failHalt"]
            /\ UNCHANGED panicBy
    /\ UNCHANGED <<partition, logCap, batches, timerStart, timerSendFailed, listenPc, errors,
                   lastOffsetPersisted, lastCutBlock, halted, haltedChan,
                   setupChan, producer, consumer, nextOff, timer, pending, ledger,
                   loopPc, deferred, haltPc, enqPc, haltReturned, enqAfterHalt,
                   enqAfterHaltedChan, sentWhileHalted>>

StartFailHalt(r) ==
    /\ Alive(r) /\ startPc[r] = "failHalt"
    /\ halted' = [halted EXCEPT ![r] = TRUE]
    /\ startPc' = [startPc EXCEPT ![r] = "failed"]
    /\ UNCHANGED <<partition, logCap, batches, timerStart, timerSendFailed, listenPc, errors,
                   lastOffsetPersisted, lastCutBlock, exitChan, haltedChan,
                   setupChan, producer, consumer, nextOff, timer, pending, ledger,
                   loopPc, deferred, haltPc, enqPc, haltReturned, enqAfterHalt,
                   enqAfterHaltedChan, sentWhileHalted, panicBy>>

(***************************************************************************)
(* Halt: a select with a default case, then close(ch.exitChan).            *)
(***************************************************************************)
HaltSelect(r, c) ==
    /\ Alive(r) /\ haltPc[r][c] = "idle"
    /\ IF exitChan[r] = "closed"
       THEN /\ haltReturned' = [haltReturned EXCEPT ![r] = TRUE]
            /\ UNCHANGED haltPc
       ELSE /\ haltPc' = [haltPc EXCEPT ![r][c] = "close"]
            /\ UNCHANGED haltReturned
    /\ UNCHANGED <<partition, logCap, batches, timerStart, timerSendFailed, listenPc, errors,
                   lastOffsetPersisted, lastCutBlock, halted, exitChan,
                   haltedChan, setupChan, producer, consumer, nextOff, timer, pending,
                   ledger, startPc, loopPc, deferred, enqPc, enqAfterHalt,
                   enqAfterHaltedChan, sentWhileHalted, panicBy>>

HaltClose(r, c) ==
    /\ Alive(r) /\ haltPc[r][c] = "close"
    /\ IF exitChan[r] = "closed"
       THEN /\ panicBy' = [panicBy EXCEPT ![r] = "Halt"]
            /\ UNCHANGED <<exitChan, haltPc, haltReturned>>
       ELSE /\ exitChan' = [exitChan EXCEPT ![r] = "closed"]
            /\ haltPc' = [haltPc EXCEPT ![r][c] = "idle"]
            /\ haltReturned' = [haltReturned EXCEPT ![r] = TRUE]
            /\ UNCHANGED panicBy
    /\ UNCHANGED <<partition, logCap, batches, timerStart, timerSendFailed, listenPc, errors,
                   lastOffsetPersisted, lastCutBlock, halted, haltedChan,
                   setupChan, producer, consumer, nextOff, timer, pending, ledger,
                   startPc, loopPc, deferred, enqPc, enqAfterHalt, enqAfterHaltedChan,
                   sentWhileHalted>>

(***************************************************************************)
(* Enqueue: read halted, Send, read halted again.                          *)
(***************************************************************************)
EnqueueEntry(r, c) ==
    /\ Alive(r) /\ enqPc[r][c] \in {"idle", "true", "false"}
    /\ enqPc' = [enqPc EXCEPT ![r][c] = IF halted[r] THEN "false" ELSE "send"]
    /\ enqAfterHalt' = [enqAfterHalt EXCEPT ![r][c] = haltReturned[r] /\ startPc[r] = "done"]
    /\ enqAfterHaltedChan' = [enqAfterHaltedChan EXCEPT ![r][c] = (haltedChan[r] = "closed")]
    /\ UNCHANGED <<partition, logCap, batches, timerStart, timerSendFailed, listenPc, errors,
                   lastOffsetPersisted, lastCutBlock, halted, exitChan,
                   haltedChan, setupChan, producer, consumer, nextOff, timer, pending,
                   ledger, startPc, loopPc, deferred, haltPc, haltReturned,
                   sentWhileHalted, panicBy>>

EnqueueSend(r, c, env) ==
    /\ Alive(r) /\ enqPc[r][c] = "send"
    /\ \/ SendOk(r, newRegularMessage(env)) /\ enqPc' = [enqPc EXCEPT ![r][c] = "sent"]
       \/ SendFails /\ enqPc' = [enqPc EXCEPT ![r][c] = "false"]
    /\ UNCHANGED <<logCap, batches, timerStart, timerSendFailed, listenPc, errors,
                   lastOffsetPersisted, lastCutBlock, halted, exitChan, haltedChan,
                   setupChan, producer, consumer, nextOff, timer, pending, ledger,
                   startPc, loopPc, deferred, haltPc, haltReturned, enqAfterHalt,
                   enqAfterHaltedChan, panicBy>>

\* Faulty variant of EnqueueReturn: return true without reading ch.halted again.
EnqueueReturnsTrue(r, c) ==
    /\ Alive(r) /\ enqPc[r][c] = "sent"
    /\ enqPc' = [enqPc EXCEPT ![r][c] = "true"]
    /\ UNCHANGED <<partition, logCap, batches, timerStart, timerSendFailed, listenPc, errors,
                   lastOffsetPersisted, lastCutBlock, halted, exitChan,
                   haltedChan, setupChan, producer, consumer, nextOff, timer, pending,
                   ledger, startPc, loopPc, deferred, haltPc, haltReturned,
                   enqAfterHalt, enqAfterHaltedChan, sentWhileHalted, panicBy>>

EnqueueReturn(r, c) ==
    /\ Alive(r) /\ enqPc[r][c] = "sent"
    /\ enqPc' = [enqPc EXCEPT ![r][c] = IF ~halted[r] THEN "true" ELSE "false"]
    /\ UNCHANGED <<partition, logCap, batches, timerStart, timerSendFailed, listenPc, errors,
                   lastOffsetPersisted, lastCutBlock, halted, exitChan,
                   haltedChan, setupChan, producer, consumer, nextOff, timer, pending,
                   ledger, startPc, loopPc, deferred, haltPc, haltReturned,
                   enqAfterHalt, enqAfterHaltedChan, sentWhileHalted, panicBy>>

(***************************************************************************)
(* loop: the select over consumer.Recv(), timer and exitChan.              *)
(***************************************************************************)
LoopState(r) ==
    [lcb |-> lastCutBlock[r], timer |-> timer[r], timerStart |-> timerStart[r],
     pending |-> pending[r], batches |-> batches[r], ledger |-> ledger[r],
     run |-> TRUE]

RecvReady(r) ==
    /\ Alive(r) /\ loopPc[r] = "select"
    /\ consumer[r] = "open"
    /\ nextOff[r] < Len(partition)

\* case in := <-ch.consumer.Recv(), for a message of the given type, up to
\* the return of its first WriteBlock inside the range loop of the Regular
\* case (to the end of the case when fewer than two batches are returned).
Consume(r, type) ==
    /\ RecvReady(r)
    /\ LET m  == partition[nextOff[r] + 1]
           st == RangeStep(Handle(LoopState(r), m, nextOff[r]), nextOff[r])
       IN  /\ m.type = type
           /\ lastCutBlock' = [lastCutBlock EXCEPT ![r] = st.lcb]
           /\ timer' = [timer EXCEPT ![r] = st.timer]
           /\ timerStart' = [timerStart EXCEPT ![r] = st.timerStart]
           /\ pending' = [pending EXCEPT ![r] = st.pending]
           /\ batches' = [batches EXCEPT ![r] = st.batches]
           /\ ledger' = [ledger EXCEPT ![r] = st.ledger]
           /\ loopPc' = [loopPc EXCEPT ![r] = IF ~st.run THEN "defer"
                                              ELSE IF st.batches # <<>> THEN "range"
                                              ELSE "select"]
    /\ nextOff' = [nextOff EXCEPT ![r] = @ + 1]
    /\ timerSendFailed' = [timerSendFailed EXCEPT ![r] = FALSE]
    /\ UNCHANGED <<partition, logCap, listenPc, errors,
                   lastOffsetPersisted, halted, exitChan, haltedChan,
                   setupChan, producer, consumer, startPc, deferred, haltPc, enqPc,
                   haltReturned, enqAfterHalt, enqAfterHaltedChan, sentWhileHalted,
                   panicBy>>

ConsumeConnect(r) == Consume(r, "Connect")

ConsumeTimeToCut(r) == Consume(r, "TimeToCut")

ConsumeRegular(r) == Consume(r, "Regular")

\* The next pass of the range loop of the Regular case, for the message
\* consumed last (in.Offset = nextOff - 1).
RangeNext(r) ==
    /\ Alive(r) /\ loopPc[r] = "range"
    /\ LET st == RangeStep(LoopState(r), nextOff[r] - 1)
       IN  /\ lastCutBlock' = [lastCutBlock EXCEPT ![r] = st.lcb]
           /\ timer' = [timer EXCEPT ![r] = st.timer]
           /\ batches' = [batches EXCEPT ![r] = st.batches]
           /\ ledger' = [ledger EXCEPT ![r] = st.ledger]
           /\ loopPc' = [loopPc EXCEPT ![r] = IF st.batches # <<>> THEN "range" ELSE "select"]
    /\ UNCHANGED <<partition, logCap, timerStart, timerSendFailed, listenPc, errors,
                   lastOffsetPersisted, halted, exitChan, haltedChan, setupChan,
                   producer, consumer, nextOff, pending, startPc, deferred, haltPc,
                   enqPc, haltReturned, enqAfterHalt, enqAfterHaltedChan,
                   sentWhileHalted, panicBy>>

\* Faulty variant of TimerFired: the message names ch.lastCutBlock, not the next block.
TimerFiredPostsLastCut(r) ==
    /\ Alive(r) /\ loopPc[r] = "select"
    /\ timer[r]
    /\ timer' = [timer EXCEPT ![r] = FALSE]
    /\ \/ /\ SendOk(r, newTimeToCutMessage(lastCutBlock[r]))
          /\ timerSendFailed' = [timerSendFailed EXCEPT ![r] = FALSE]
       \/ /\ SendFails
          /\ timerSendFailed' = [timerSendFailed EXCEPT ![r] = TRUE]
    /\ UNCHANGED <<logCap, batches, timerStart, listenPc, errors,
                   lastOffsetPersisted, lastCutBlock, halted, exitChan, haltedChan,
                   setupChan, producer, consumer, nextOff, pending, ledger, startPc,
                   loopPc, deferred, haltPc, enqPc, haltReturned, enqAfterHalt,
                   enqAfterHaltedChan, panicBy>>

\* case <-timer
TimerFired(r) ==
    /\ Alive(r) /\ loopPc[r] = "select"
    /\ timer[r]
    /\ timer' = [timer EXCEPT ![r] = FALSE]
    /\ \/ /\ SendOk(r, newTimeToCutMessage(lastCutBlock[r] + 1))
          /\ timerSendFailed' = [timerSendFailed EXCEPT ![r] = FALSE]
       \/ /\ SendFails
          /\ timerSendFailed' = [timerSendFailed EXCEPT ![r] = TRUE]
    /\ UNCHANGED <<logCap, batches, timerStart, listenPc, errors,
                   lastOffsetPersisted, lastCutBlock, halted, exitChan, haltedChan,
                   setupChan, producer, consumer, nextOff, pending, ledger, startPc,
                   loopPc, deferred, haltPc, enqPc, haltReturned, enqAfterHalt,
                   enqAfterHaltedChan, panicBy>>

\* case <-ch.exitChan
LoopExit(r) ==
    /\ Alive(r) /\ loopPc[r] = "select"
    /\ exitChan[r] = "closed"
    /\ loopPc' = [loopPc EXCEPT ![r] = "defer"]
    /\ UNCHANGED <<partition, logCap, batches, timerStart, timerSendFailed, listenPc, errors,
                   lastOffsetPersisted, lastCutBlock, halted, exitChan,
                   haltedChan, setupChan, producer, consumer, nextOff, timer, pending,
                   ledger, startPc, deferred, haltPc, enqPc, haltReturned,
                   enqAfterHalt, enqAfterHaltedChan, sentWhileHalted, panicBy>>

(***************************************************************************)
(* loop's deferred calls, run one at a time once loop returns.             *)
(***************************************************************************)
DeferredReady(r, call) ==
    /\ Alive(r) /\ loopPc[r] = "defer"
    /\ deferred[r] # <<>> /\ Head(deferred[r]) = call

PopDeferred(r) ==
    /\ deferred' = [deferred EXCEPT ![r] = Tail(@)]
    /\ loopPc' = [loopPc EXCEPT ![r] = IF Tail(deferred[r]) = <<>> THEN "done" ELSE "defer"]

DeferredConsumerClose(r) ==
    /\ DeferredReady(r, "consumer.Close")
    /\ consumer' = [consumer EXCEPT ![r] = "closed"]
    /\ PopDeferred(r)
    /\ UNCHANGED <<partition, logCap, batches, timerStart, timerSendFailed, listenPc, errors,
                   lastOffsetPersisted, lastCutBlock, halted, exitChan,
                   haltedChan, setupChan, producer, nextOff, timer, pending, ledger,
                   startPc, haltPc, enqPc, haltReturned, enqAfterHalt,
                   enqAfterHaltedChan, sentWhileHalted, panicBy>>

DeferredSetHalted(r) ==
    /\ DeferredReady(r, "halted")
    /\ halted' = [halted EXCEPT ![r] = TRUE]
    /\ PopDeferred(r)
    /\ UNCHANGED <<partition, logCap, batches, timerStart, timerSendFailed, listenPc, errors,
                   lastOffsetPersisted, lastCutBlock, exitChan, haltedChan,
                   setupChan, producer, consumer, nextOff, timer, pending, ledger,
                   startPc, haltPc, enqPc, haltReturned, enqAfterHalt,
                   enqAfterHaltedChan, sentWhileHalted, panicBy>>

DeferredProducerClose(r) ==
    /\ DeferredReady(r, "producer.Close")
    /\ producer' = [producer EXCEPT ![r] = "closed"]
    /\ PopDeferred(r)
    /\ UNCHANGED <<partition, logCap, batches, timerStart, timerSendFailed, listenPc, errors,
                   lastOffsetPersisted, lastCutBlock, halted, exitChan,
                   haltedChan, setupChan, consumer, nextOff, timer, pending, ledger,
                   startPc, haltPc, enqPc, haltReturned, enqAfterHalt,
                   enqAfterHaltedChan, sentWhileHalted, panicBy>>

DeferredCloseHaltedChan(r) ==
    /\ DeferredReady(r, "haltedChan")
    /\ haltedChan' = [haltedChan EXCEPT ![r] = "closed"]
    /\ PopDeferred(r)
    /\ UNCHANGED <<partition, logCap, batches, timerStart, timerSendFailed, listenPc, errors,
                   lastOffsetPersisted, lastCutBlock, halted, exitChan,
                   setupChan, producer, consumer, nextOff, timer, pending, ledger,
                   startPc, haltPc, enqPc, haltReturned, enqAfterHalt,
                   enqAfterHaltedChan, sentWhileHalted, panicBy>>

(***************************************************************************)
(* listenForErrors: one select over exitChan and consumer.Errors().  The   *)
(* consumer may put an error on its error stream while it is open.         *)
(***************************************************************************)
ConsumerError(r) ==
    /\ Alive(r) /\ consumer[r] = "open"
    /\ errors[r] < MaxErrors
    /\ errors' = [errors EXCEPT ![r] = @ + 1]
    /\ UNCHANGED <<partition, logCap, batches, timerStart, timerSendFailed, listenPc,
                   lastOffsetPersisted, lastCutBlock, halted, exitChan, haltedChan,
                   setupChan, producer, consumer, nextOff, timer, pending, ledger,
                   startPc, loopPc, deferred, haltPc, enqPc, haltReturned,
                   enqAfterHalt, enqAfterHaltedChan, sentWhileHalted, panicBy>>

\* case err := <-ch.consumer.Errors(): logged, and the function returns.
ListenError(r) ==
    /\ Alive(r) /\ listenPc[r] = "select"
    /\ errors[r] > 0
    /\ errors' = [errors EXCEPT ![r] = @ - 1]
    /\ listenPc' = [listenPc EXCEPT ![r] = "done"]
    /\ UNCHANGED <<partition, logCap, batches, timerStart, timerSendFailed,
                   lastOffsetPersisted, lastCutBlock, halted, exitChan, haltedChan,
                   setupChan, producer, consumer, nextOff, timer, pending, ledger,
                   startPc, loopPc, deferred, haltPc, enqPc, haltReturned,
                   enqAfterHalt, enqAfterHaltedChan, sentWhileHalted, panicBy>>

\* case <-ch.exitChan
ListenExit(r) ==
    /\ Alive(r) /\ listenPc[r] = "select"
    /\ exitChan[r] = "closed"
    /\ listenPc' = [listenPc EXCEPT ![r] = "done"]
    /\ UNCHANGED <<partition, logCap, batches, timerStart, timerSendFailed, errors,
                   lastOffsetPersisted, lastCutBlock, halted, exitChan, haltedChan,
                   setupChan, producer, consumer, nextOff, timer, pending, ledger,
                   startPc, loopPc, deferred, haltPc, enqPc, haltReturned,
                   enqAfterHalt, enqAfterHaltedChan, sentWhileHalted, panicBy>>

(***************************************************************************)
(* Other producers on the partition: the orderers and clients of the       *)
(* channel that this model does not run as replicas.                       *)
(***************************************************************************)
ExternalMessages ==
    {newConnectMessage}
      \cup {newTimeToCutMessage(n) : n \in 1..MaxTTC}
      \cup {newRegularMessage(p) : p \in Payloads}

ExternalPublish(m) ==
    /\ Len(partition) < logCap
    /\ partition' = Append(partition, m)
    /\ UNCHANGED <<logCap, batches, timerStart, timerSendFailed, listenPc, errors,
                   lastOffsetPersisted, lastCutBlock, halted, exitChan, haltedChan,
                   setupChan, producer, consumer, nextOff, timer, pending, ledger,
                   startPc, loopPc, deferred, haltPc, enqPc, haltReturned,
                   enqAfterHalt, enqAfterHaltedChan, sentWhileHalted, panicBy>>

(***************************************************************************)
(* A replica's process stops at any point after Start was called (it is    *)
(* killed, also between two WriteBlock calls of one message, or it has     *)
(* exited) and a new process is started on the ledger it left: HandleChain *)
(* on the metadata of the most recent block, newChain, a fresh block       *)
(* cutter.                                                                 *)
(***************************************************************************)
Stopped(r) == startPc[r] # "init"

Restart(r) ==
    /\ Stopped(r)
    /\ lastOffsetPersisted' = [lastOffsetPersisted EXCEPT
                                 ![r] = getLastOffsetPersisted(TipMetadata(ledger[r]))]
    /\ lastCutBlock' = [lastCutBlock EXCEPT ![r] = Height(ledger[r]) - 1]
    /\ halted' = [halted EXCEPT ![r] = FALSE]
    /\ exitChan' = [exitChan EXCEPT ![r] = "open"]
    /\ haltedChan' = [haltedChan EXCEPT ![r] = "open"]
    /\ setupChan' = [setupChan EXCEPT ![r] = "open"]
    /\ producer' = [producer EXCEPT ![r] = "open"]
    /\ consumer' = [consumer EXCEPT ![r] = "nil"]
    /\ nextOff' = [nextOff EXCEPT ![r] = 0]
    /\ timer' = [timer EXCEPT ![r] = FALSE]
    /\ pending' = [pending EXCEPT ![r] = <<>>]
    /\ batches' = [batches EXCEPT ![r] = <<>>]
    /\ startPc' = [startPc EXCEPT ![r] = "init"]
    /\ loopPc' = [loopPc EXCEPT ![r] = "none"]
    /\ deferred' = [deferred EXCEPT ![r] = <<>>]
    /\ haltPc' = [haltPc EXCEPT ![r] = [c \in DOMAIN @ |-> "idle"]]
    /\ enqPc' = [enqPc EXCEPT ![r] = [c \in DOMAIN @ |-> "idle"]]
    /\ haltReturned' = [haltReturned EXCEPT ![r] = FALSE]
    /\ enqAfterHalt' = [enqAfterHalt EXCEPT ![r] = [c \in DOMAIN @ |-> FALSE]]
    /\ enqAfterHaltedChan' = [enqAfterHaltedChan EXCEPT ![r] = [c \in DOMAIN @ |-> FALSE]]
    /\ sentWhileHalted' = [sentWhileHalted EXCEPT ![r] = FALSE]
    /\ panicBy' = [panicBy EXCEPT ![r] = "none"]
    /\ timerStart' = [timerStart EXCEPT ![r] = -1]
    /\ listenPc' = [listenPc EXCEPT ![r] = "none"]
    /\ errors' = [errors EXCEPT ![r] = 0]
    /\ timerSendFailed' = [timerSendFailed EXCEPT ![r] = FALSE]
    /\ UNCHANGED <<partition, logCap, ledger>>

(***************************************************************************)
(* Spec: one orderer and one caller of Halt, on a partition that the       *)
(* channel's other orderers and clients write to.                          *)
(***************************************************************************)
Init == InitWith({1}, {1}, {}, MaxLog)

Next ==
    \/ \E r \in Replicas : StartConnect(r)
    \/ \E r \in Replicas : StartConsumer(r)
    \/ \E r \in Replicas : StartFailClose(r)
    \/ \E r \in Replicas : StartFailHalt(r)
    \/ \E r \in Replicas : \E c \in HaltCallers(r) : HaltSelect(r, c)
    \/ \E r \in Replicas : \E c \in HaltCallers(r) : HaltClose(r, c)
    \/ \E r \in Replicas : ConsumeConnect(r)
    \/ \E r \in Replicas : ConsumeTimeToCut(r)
    \/ \E r \in Replicas : ConsumeRegular(r)
    \/ \E r \in Replicas : RangeNext(r)
    \/ \E r \in Replicas : TimerFired(r)
    \/ \E r \in Replicas : ListenExit(r)
    \/ \E r \in Replicas : LoopExit(r)
    \/ \E r \in Replicas : DeferredConsumerClose(r)
    \/ \E r \in Replicas : DeferredSetHalted(r)
    \/ \E r \in Replicas : DeferredProducerClose(r)
    \/ \E r \in Replicas : DeferredCloseHaltedChan(r)
    \/ \E m \in ExternalMessages : ExternalPublish(m)

Spec == Init /\ [][Next]_vars

(***************************************************************************)
(* SpecConc: one orderer with two concurrent callers of Halt and two of    *)
(* Enqueue; another orderer may post TimeToCut messages.                   *)
(***************************************************************************)
InitConc == InitWith({1}, {1, 2}, {1, 2}, MaxLogConc)

NextConc ==
    \/ \E r \in Replicas : StartConnect(r)
    \/ \E r \in Replicas : StartConsumer(r)
    \/ \E r \in Replicas : StartFailClose(r)
    \/ \E r \in Replicas : StartFailHalt(r)
    \/ \E r \in Replicas : \E c \in HaltCallers(r) : HaltSelect(r, c)
    \/ \E r \in Replicas : \E c \in HaltCallers(r) : HaltClose(r, c)
    \/ \E r \in Replicas : \E c \in EnqueueCallers(r) : EnqueueEntry(r, c)
    \/ \E r \in Replicas : \E c \in EnqueueCallers(r) : EnqueueSend(r, c, "a")
    \/ \E r \in Replicas : \E c \in EnqueueCallers(r) : EnqueueReturn(r, c)
    \/ \E r \in Replicas : ConsumeConnect(r)
    \/ \E r \in Replicas : ConsumeTimeToCut(r)
    \/ \E r \in Replicas : ConsumeRegular(r)
    \/ \E r \in Replicas : TimerFired(r)
    \/ \E r \in Replicas : ListenExit(r)
    \/ \E r \in Replicas : LoopExit(r)
    \/ \E r \in Replicas : DeferredConsumerClose(r)
    \/ \E r \in Replicas : DeferredSetHalted(r)
    \/ \E r \in Replicas : DeferredProducerClose(r)
    \/ \E r \in Replicas : DeferredCloseHaltedChan(r)
    \/ ExternalPublish(newTimeToCutMessage(MaxTTC))

SpecConc == InitConc /\ [][NextConc]_vars

(***************************************************************************)
(* SpecReplicas: two orderers on one partition.  Clients post Regular      *)
(* messages; every TimeToCut is posted by the timer of a replica.          *)
(***************************************************************************)
InitReplicas == InitWith({1, 2}, {}, {}, MaxLogReplicas)

ClientMessages == {newRegularMessage(p) : p \in Envelopes}

NextReplicas ==
    \/ \E r \in Replicas : StartConnect(r)
    \/ \E r \in Replicas : StartConsumer(r)
    \/ \E r \in Replicas : StartFailClose(r)
    \/ \E r \in Replicas : StartFailHalt(r)
    \/ \E r \in Replicas : ConsumeConnect(r)
    \/ \E r \in Replicas : ConsumeTimeToCut(r)
    \/ \E r \in Replicas : ConsumeRegular(r)
    \/ \E r \in Replicas : RangeNext(r)
    \/ \E r \in Replicas : TimerFired(r)
    \/ \E m \in ClientMessages : ExternalPublish(m)

SpecReplicas == InitReplicas /\ [][NextReplicas]_vars

(***************************************************************************)
(* SpecRestart: one orderer that may stop and be restarted on its ledger.  *)
(***************************************************************************)
InitRestart == InitWith({1}, {}, {}, MaxLogRestart)

NextRestart ==
    \/ \E r \in Replicas : StartConnect(r)
    \/ \E r \in Replicas : StartConsumer(r)
    \/ \E r \in Replicas : StartFailClose(r)
    \/ \E r \in Replicas : StartFailHalt(r)
    \/ \E r \in Replicas : ConsumeConnect(r)
    \/ \E r \in Replicas : ConsumeTimeToCut(r)
    \/ \E r \in Replicas : ConsumeRegular(r)
    \/ \E r \in Replicas : RangeNext(r)
    \/ \E r \in Replicas : TimerFired(r)
    \/ \E r \in Replicas : DeferredConsumerClose(r)
    \/ \E r \in Replicas : DeferredSetHalted(r)
    \/ \E r \in Replicas : DeferredProducerClose(r)
    \/ \E r \in Replicas : DeferredCloseHaltedChan(r)
    \/ \E r \in Replicas : Restart(r)
    \/ \E m \in ExternalMessages : ExternalPublish(m)

SpecRestart == InitRestart /\ [][NextRestart]_vars

(***************************************************************************)
(* SpecIngress: one orderer with one caller of Enqueue and no caller of    *)
(* Halt; another orderer may post TimeToCut messages.                      *)
(***************************************************************************)
InitIngress == InitWith({1}, {}, {1}, MaxLogIngress)

IngressEnvelopes == {"a", "b"}

NextIngress ==
    \/ \E r \in Replicas : StartConnect(r)
    \/ \E r \in Replicas : StartConsumer(r)
    \/ \E r \in Replicas : StartFailClose(r)
    \/ \E r \in Replicas : StartFailHalt(r)
    \/ \E r \in Replicas : \E c \in EnqueueCallers(r) : EnqueueEntry(r, c)
    \/ \E r \in Replicas : \E c \in EnqueueCallers(r) :
           \E env \in IngressEnvelopes : EnqueueSend(r, c, env)
    \/ \E r \in Replicas : \E c \in EnqueueCallers(r) : EnqueueReturn(r, c)
    \/ \E r \in Replicas : ConsumeConnect(r)
    \/ \E r \in Replicas : ConsumeTimeToCut(r)
    \/ \E r \in Replicas : ConsumeRegular(r)
    \/ \E r \in Replicas : TimerFired(r)
    \/ \E r \in Replicas : DeferredConsumerClose(r)
    \/ \E r \in Replicas : DeferredSetHalted(r)
    \/ \E r \in Replicas : DeferredProducerClose(r)
    \/ \E r \in Replicas : DeferredCloseHaltedChan(r)
    \/ \E n \in 1..MaxTTC : ExternalPublish(newTimeToCutMessage(n))

SpecIngress == InitIngress /\ [][NextIngress]_vars

(***************************************************************************)
(* SpecErrors: one orderer with one caller of Halt, whose consumer emits   *)
(* errors; clients post Regular messages.                                  *)
(***************************************************************************)
InitErrors == InitWith({1}, {1}, {}, MaxLogErrors)

NextErrors ==
    \/ \E r \in Replicas : StartConnect(r)
    \/ \E r \in Replicas : StartConsumer(r)
    \/ \E r \in Replicas : StartFailClose(r)
    \/ \E r \in Replicas : StartFailHalt(r)
    \/ \E r \in Replicas : \E c \in HaltCallers(r) : HaltSelect(r, c)
    \/ \E r \in Replicas : \E c \in HaltCallers(r) : HaltClose(r, c)
    \/ \E r \in Replicas : ConsumerError(r)
    \/ \E r \in Replicas : ListenError(r)
    \/ \E r \in Replicas : ListenExit(r)
    \/ \E r \in Replicas : ConsumeConnect(r)
    \/ \E r \in Replicas : ConsumeRegular(r)
    \/ \E r \in Replicas : TimerFired(r)
    \/ \E r \in Replicas : LoopExit(r)
    \/ \E r \in Replicas : DeferredConsumerClose(r)
    \/ \E r \in Replicas : DeferredSetHalted(r)
    \/ \E r \in Replicas : DeferredProducerClose(r)
    \/ \E r \in Replicas : DeferredCloseHaltedChan(r)
    \/ ExternalPublish(newRegularMessage("a"))

SpecErrors == InitErrors /\ [][NextErrors]_vars

(***************************************************************************)
(* A driver that is never stopped, run as a function of what it consumes:  *)
(* loop's consumer case applied to the messages at the given offsets, in   *)
(* order, from the state newChain gives on the genesis ledger, until the   *)
(* case returns from loop.                                                 *)
(***************************************************************************)
FreshLoopState ==
    [lcb |-> Height(<<GenesisBlock>>) - 1, timer |-> FALSE, timerStart |-> -1,
     pending |-> <<>>, batches |-> <<>>, ledger |-> <<GenesisBlock>>, run |-> TRUE]

\* The range loop run to its end.
RECURSIVE RangeAll(_, _)
RangeAll(st, off) ==
    IF st.batches = <<>> THEN st ELSE RangeAll(RangeStep(st, off), off)

RECURSIVE RunLoop(_, _)
RunLoop(st, offs) ==
    IF offs = <<>> \/ ~st.run THEN st
    ELSE RunLoop(RangeAll(Handle(st, partition[Head(offs) + 1], Head(offs)), Head(offs)),
                 Tail(offs))

Offsets(n) == [i \in 1..n |-> OffsetOf(i)]

NotConnectAt(off) == partition[off + 1].type # "Connect"

IsPrefix(s, t) == Len(s) <= Len(t) /\ SubSeq(t, 1, Len(s)) = s

\* The blocks the loop wrote (the ledger after its genesis block).
Written(r) == SubSeq(ledger[r], 2, Len(ledger[r]))

\* The (block height, embedded last_offset_persisted) pairs of the written blocks.
Pairs(r) == [i \in 1..Len(Written(r)) |-> <<Written(r)[i].number, Written(r)[i].meta>>]

Started(r) == consumer[r] # "nil"

(***************************************************************************)
(* C1: two replicas that start from the same ledger and consume the same   *)
(* partition, each with its own timer posting its own TimeToCut messages,  *)
(* write the same (height, offset) pairs: at every moment one replica's    *)
(* sequence is a prefix of the other's, and the sequences are equal once   *)
(* both have consumed the same prefix of the partition (each having        *)
(* finished the range loop of the last message it consumed).               *)
(***************************************************************************)
Consumed(r) == Started(r) /\ loopPc[r] # "range"

C1_ReplicasWriteSamePairs ==
    \A r1 \in Replicas : \A r2 \in Replicas :
        /\ IsPrefix(Pairs(r1), Pairs(r2)) \/ IsPrefix(Pairs(r2), Pairs(r1))
        /\ (Consumed(r1) /\ Consumed(r2) /\ nextOff[r1] = nextOff[r2]) => Pairs(r1) = Pairs(r2)

TimeToCutCount == Cardinality({i \in 1..Len(partition) : partition[i].type = "TimeToCut"})

\* Both replicas' timers posted a TimeToCut, both consumed the whole
\* partition, and both wrote a block.
C1_Witness ==
    /\ Cardinality(Replicas) = 2
    /\ TimeToCutCount >= 2
    /\ \A r \in Replicas : Consumed(r) /\ nextOff[r] = Len(partition) /\ Len(Written(r)) >= 1

(***************************************************************************)
(* C2: a replica restarted on its ledger (consumer at last_offset_persisted *)
(* + 1, last_cut_block = N, fresh block cutter) writes, at every height,   *)
(* the block that a replica consuming the same partition without a restart *)
(* writes: same height, same embedded offset, same envelopes.              *)
(***************************************************************************)
NeverRestarted == RunLoop(FreshLoopState, Offsets(Len(partition))).ledger

C2_RestartWritesSameBlocks ==
    \A r \in Replicas :
        \A h \in 1..Len(ledger[r]) :
            h <= Len(NeverRestarted) => ledger[r][h] = NeverRestarted[h]

(***************************************************************************)
(* C3: the k-th block the loop writes has height (initial last_cut_block)  *)
(* + k, and last_cut_block is the height of the last block written: one    *)
(* increment per WriteBlock, so heights have no gaps and no repeats, also  *)
(* when one Regular message yields several batches.                        *)
(***************************************************************************)
C3_HeightsNoGapsNoRepeats ==
    \A r \in Replicas :
        /\ lastCutBlock[r] = (Height(<<GenesisBlock>>) - 1) + Len(Written(r))
        /\ \A k \in 1..Len(Written(r)) :
               Written(r)[k].number = (Height(<<GenesisBlock>>) - 1) + k

\* One consumed Regular message has yielded two blocks.
C3_Witness ==
    \E r \in Replicas :
        /\ lastCutBlock[r] >= 2
        /\ \E k \in 1..(Len(Written(r)) - 1) :
               /\ Written(r)[k].meta = Written(r)[k + 1].meta
               /\ partition[Written(r)[k].meta[1] + 1].type = "Regular"

(***************************************************************************)
(* C4: of two consecutive written blocks, the later embeds a strictly      *)
(* greater last_offset_persisted than the earlier.                         *)
(***************************************************************************)
C4_OffsetsStrictlyIncreasing ==
    \A r \in Replicas :
        \A k \in 1..(Len(Written(r)) - 1) :
            Written(r)[k].meta[1] < Written(r)[k + 1].meta[1]

(***************************************************************************)
(* C5: on a chain that Start has set up, whatever the number of calls of   *)
(* Halt and of concurrent callers, no call of Halt closes an exit signal   *)
(* that is already closed (which panics).                                  *)
(***************************************************************************)
C5_HaltNeverClosesTwice ==
    \A r \in Replicas : startPc[r] = "done" => panicBy[r] # "Halt"

(***************************************************************************)
(* C6, as claimed (for a chain whose Start has returned): an Enqueue call  *)
(* that begins after a call of Halt has returned does not return true.     *)
(***************************************************************************)
C6_EnqueueAfterHaltReturnsFalse ==
    \A r \in Replicas : \A c \in EnqueueCallers(r) :
        enqAfterHalt[r][c] => enqPc[r][c] # "true"

(***************************************************************************)
(* C6, amended: an Enqueue call that begins after the halted-signal        *)
(* channel has been closed (the event loop has finished its deferred       *)
(* cleanup) returns false, and does so without publishing.                 *)
(***************************************************************************)
C6_EnqueueAfterHaltedChanReturnsFalse ==
    \A r \in Replicas : \A c \in EnqueueCallers(r) :
        enqAfterHaltedChan[r][c] => enqPc[r][c] = "false"

\* Halt returned, the loop finished its cleanup, and an Enqueue that began
\* after that has returned false.
C6_Witness ==
    \E r \in Replicas : \E c \in EnqueueCallers(r) :
        /\ haltReturned[r] /\ loopPc[r] = "done"
        /\ enqAfterHaltedChan[r][c] /\ enqPc[r][c] = "false"

(***************************************************************************)
(* C7: on a chain whose event loop ran, no producer publish of the chain   *)
(* (Regular from Enqueue, TimeToCut from the timer) succeeds once halted   *)
(* is true.                                                                *)
(***************************************************************************)
C7_NoPublishOnceHalted ==
    \A r \in Replicas : loopPc[r] # "none" => ~sentWhileHalted[r]

(***************************************************************************)
(* C8: consuming a Connect message leaves last_cut_block, the timer, the   *)
(* pending batch and the ledger unchanged and the loop running, and       *)
(* whenever the loop is done with the messages it consumed last_cut_block, *)
(* the pending batch and the ledger are what these messages give with      *)
(* every Connect removed (each block carrying the offset of the same       *)
(* triggering message); inside a range loop the ledger is a prefix of it.  *)
(***************************************************************************)
WithoutConnect(r) ==
    RunLoop(FreshLoopState, SelectSeq(Offsets(nextOff[r]), NotConnectAt))

C8_ConnectChangesNothing ==
    /\ [][\A r \in Replicas :
             ConsumeConnect(r) =>
                 /\ UNCHANGED <<lastCutBlock, timer, pending, ledger, loopPc>>
                 /\ nextOff'[r] = nextOff[r] + 1]_vars
    /\ [](\A r \in Replicas :
             /\ pending[r] = WithoutConnect(r).pending
             /\ IsPrefix(ledger[r], WithoutConnect(r).ledger)
             /\ loopPc[r] # "range" =>
                    /\ lastCutBlock[r] = WithoutConnect(r).lcb
                    /\ ledger[r] = WithoutConnect(r).ledger)

\* A Connect was consumed while envelopes and a timer were pending, and a
\* block was cut by a later message.
C8_Witness ==
    \E r \in Replicas :
        \E i \in 1..Len(partition) : \E j \in 1..Len(partition) :
            /\ i < j /\ j <= nextOff[r]
            /\ partition[i].type = "Regular" /\ partition[i].payload = "a"
            /\ \A k \in 1..(i - 1) : partition[k].type = "Connect"
            /\ partition[j].type = "Connect"
            /\ Len(Written(r)) >= 1
            /\ Written(r)[1].meta[1] >= OffsetOf(j)

(***************************************************************************)
(* C9: Start creates the consumer at last_offset_persisted + 1 of the most *)
(* recent block's metadata, at the oldest available offset when the        *)
(* metadata is absent; so the next offset the driver consumes is always    *)
(* greater than the offset embedded in its most recent block.              *)
(***************************************************************************)
C9_ResumeAfterPersistedOffset ==
    /\ [][\A r \in Replicas :
             (startPc[r] = "connected" /\ startPc'[r] = "done") =>
                 nextOff'[r] = IF ledger[r][Len(ledger[r])].meta = <<>>
                               THEN 0
                               ELSE ledger[r][Len(ledger[r])].meta[1] + 1]_vars
    /\ [](\A r \in Replicas :
             (Started(r) /\ ledger[r][Len(ledger[r])].meta # <<>>) =>
                 nextOff[r] > ledger[r][Len(ledger[r])].meta[1])

\* A driver restarted on a block cut at offset k has its consumer at k + 1,
\* where a message waits.
C9_Witness ==
    \E r \in Replicas :
        /\ lastOffsetPersisted[r] >= 0
        /\ Len(ledger[r]) >= 2
        /\ ledger[r][Len(ledger[r])].meta = <<lastOffsetPersisted[r]>>
        /\ consumer[r] = "open" /\ loopPc[r] = "select"
        /\ nextOff[r] = lastOffsetPersisted[r] + 1
        /\ nextOff[r] < Len(partition)

(***************************************************************************)
(* C10: a TimeToCut{N} consumed while last_cut_block = N - 1 and envelopes *)
(* are pending writes exactly one block (all pending envelopes, the        *)
(* message's own offset), clears the timer and increments last_cut_block;  *)
(* a TimeToCut{N} consumed while N <= last_cut_block writes no block and   *)
(* leaves last_cut_block, the timer and the pending batch unchanged; the   *)
(* loop keeps running in both cases.  So for every N at most one           *)
(* TimeToCut{N} of the partition cuts a block.                             *)
(***************************************************************************)
CutByTimeToCut(r, n) ==
    {k \in 1..Len(Written(r)) :
        partition[Written(r)[k].meta[1] + 1] = newTimeToCutMessage(n)}

C10_OneTimeToCutPerHeight ==
    /\ [][\A r \in Replicas :
             ConsumeTimeToCut(r) =>
                 LET n == partition[nextOff[r] + 1].num
                 IN  /\ (n = lastCutBlock[r] + 1 /\ pending[r] # <<>>) =>
                            /\ ledger'[r] = Append(ledger[r],
                                                   [number |-> n, envs |-> pending[r],
                                                    meta |-> <<nextOff[r]>>])
                            /\ pending'[r] = <<>>
                            /\ ~timer'[r]
                            /\ lastCutBlock'[r] = n
                            /\ loopPc'[r] = "select"
                     /\ n <= lastCutBlock[r] =>
                            /\ ledger'[r] = ledger[r]
                            /\ pending'[r] = pending[r]
                            /\ timer'[r] = timer[r]
                            /\ lastCutBlock'[r] = lastCutBlock[r]
                            /\ loopPc'[r] = "select"]_vars
    /\ [](\A r \in Replicas : \A n \in 1..(MaxTTC + 1) :
             Cardinality(CutByTimeToCut(r, n)) <= 1)

\* Two TimeToCut{1} were consumed: the first cut block 1, the second was
\* ignored, and the loop is still running.
C10_Witness ==
    \E r \in Replicas :
        \E i \in 1..Len(partition) : \E j \in 1..Len(partition) :
            /\ i < j /\ j <= nextOff[r]
            /\ partition[i] = newTimeToCutMessage(1)
            /\ partition[j] = newTimeToCutMessage(1)
            /\ Len(Written(r)) = 1
            /\ Written(r)[1].meta = <<OffsetOf(i)>>
            /\ lastCutBlock[r] = 1
            /\ loopPc[r] = "select"

(***************************************************************************)
(* C11: consuming TimeToCut{N} with N > last_cut_block + 1, or with        *)
(* N = last_cut_block + 1 while the block cutter holds nothing, writes no  *)
(* block, leaves last_cut_block unchanged and returns from loop.  Once     *)
(* loop has returned no message is consumed, its deferred calls can always *)
(* proceed, and when they are done the consumer and the producer are       *)
(* closed, halted is true and the halted-signal channel is closed; an      *)
(* Enqueue that begins after that returns false without publishing.        *)
(***************************************************************************)
AnomalousTimeToCut(r) ==
    LET n == partition[nextOff[r] + 1].num
    IN  \/ n > lastCutBlock[r] + 1
        \/ n = lastCutBlock[r] + 1 /\ pending[r] = <<>>

C11_AnomalousTimeToCutExits ==
    /\ [][\A r \in Replicas :
             (ConsumeTimeToCut(r) /\ AnomalousTimeToCut(r)) =>
                 /\ ledger'[r] = ledger[r]
                 /\ lastCutBlock'[r] = lastCutBlock[r]
                 /\ loopPc'[r] = "defer"]_vars
    /\ [][\A r \in Replicas :
             loopPc[r] \in {"defer", "done"} =>
                 /\ nextOff'[r] = nextOff[r]
                 /\ ledger'[r] = ledger[r]
                 /\ loopPc'[r] \in {"defer", "done"}]_vars
    /\ [](\A r \in Replicas :
             /\ loopPc[r] = "defer" => (Alive(r) /\ deferred[r] # <<>>)
             /\ (loopPc[r] = "done" /\ exitChan[r] = "open") =>
                    /\ consumer[r] = "closed" /\ producer[r] = "closed"
                    /\ halted[r] /\ haltedChan[r] = "closed"
             /\ \A c \in EnqueueCallers(r) :
                    (exitChan[r] = "open" /\ enqAfterHaltedChan[r][c]) =>
                        enqPc[r][c] = "false")

\* A block was cut, then TimeToCut{last_cut_block + 1} was consumed with
\* nothing pending; the loop has exited and finished its cleanup, and an
\* Enqueue that began afterwards has returned false.
C11_Witness ==
    \E r \in Replicas : \E c \in EnqueueCallers(r) :
        /\ loopPc[r] = "done" /\ exitChan[r] = "open"
        /\ lastCutBlock[r] >= 1 /\ pending[r] = <<>>
        /\ nextOff[r] >= 1
        /\ partition[nextOff[r]] = newTimeToCutMessage(lastCutBlock[r] + 1)
        /\ enqAfterHaltedChan[r][c] /\ enqPc[r][c] = "false"

(***************************************************************************)
(* C12: when the batch timer fires the loop clears the timer and makes one *)
(* publish attempt, of TimeToCut{last_cut_block + 1}: the partition gains  *)
(* that message or nothing.  The step leaves the block cutter, the ledger  *)
(* and last_cut_block unchanged and the loop running, whether the publish  *)
(* succeeded or failed.  The ledger grows only in a step that consumes a   *)
(* TimeToCut or a Regular message from the partition, or goes on with the  *)
(* range loop of the Regular message consumed last.                        *)
(***************************************************************************)
C12_TimerExpiryOnlyPosts ==
    /\ [][\A r \in Replicas :
             TimerFired(r) =>
                 /\ ~timer'[r]
                 /\ \/ partition' = partition
                    \/ partition' = Append(partition,
                                           newTimeToCutMessage(lastCutBlock[r] + 1))
                 /\ pending'[r] = pending[r]
                 /\ ledger'[r] = ledger[r]
                 /\ lastCutBlock'[r] = lastCutBlock[r]
                 /\ loopPc'[r] = "select"]_vars
    /\ [][\A r \in Replicas :
             ledger'[r] # ledger[r] =>
                 \/ ConsumeTimeToCut(r)
                 \/ ConsumeRegular(r)
                 \/ RangeNext(r) /\ partition[nextOff[r]].type = "Regular"]_vars

\* A consumed TimeToCut{1} cut block 1; later the timer fired for block 2,
\* its publish failed, and the loop runs on with the envelope still pending.
C12_Witness ==
    \E r \in Replicas :
        /\ loopPc[r] = "select" /\ timerSendFailed[r]
        /\ ~timer[r] /\ pending[r] # <<>>
        /\ lastCutBlock[r] = 1
        /\ partition[Written(r)[1].meta[1] + 1] = newTimeToCutMessage(1)

(***************************************************************************)
(* C13: after a timer expiry whose TimeToCut publish failed (timer         *)
(* cleared, envelopes pending), consuming the next message, be it a        *)
(* Connect, a stale TimeToCut or a Regular, leaves a block cut or a batch  *)
(* timer pending.                                                          *)
(***************************************************************************)
AfterFailedExpiry(r) == timerSendFailed[r] /\ ~timer[r] /\ pending[r] # <<>>

NextIsStaleTimeToCut(r) == partition[nextOff[r] + 1].num <= lastCutBlock[r]

C13_NextMessageRestartsCycle ==
    [][\A r \in Replicas :
          (/\ AfterFailedExpiry(r)
           /\ \/ ConsumeConnect(r)
              \/ ConsumeTimeToCut(r) /\ NextIsStaleTimeToCut(r)
              \/ ConsumeRegular(r))
          => (Len(ledger'[r]) > Len(ledger[r]) \/ timer'[r])]_vars

(***************************************************************************)
(* C14: time.After is called only in a step that consumes a Regular        *)
(* message which the block cutter accepts without returning a batch, and   *)
(* only when no timer is pending; so a Regular message consumed while a    *)
(* timer is pending leaves that timer as it is or clears it.  A Regular    *)
(* message that writes blocks has cleared the timer when its range loop is *)
(* over, and a timer pending while the loop waits was always started after *)
(* the last block was cut, so no TimeToCut is posted for a timer whose     *)
(* batch has been cut.                                                     *)
(***************************************************************************)
TimerStarted(r) == timer'[r] /\ (~timer[r] \/ timerStart'[r] # timerStart[r])

AcceptedWithoutBatch(r) ==
    LET m == partition[nextOff[r] + 1]
    IN  /\ m.type = "Regular" /\ m.payload \in Envelopes
        /\ Ordered(pending[r], m.payload).ok
        /\ Len(Ordered(pending[r], m.payload).batches) = 0

C14_TimerStartedOnceUntilCut ==
    /\ [][\A r \in Replicas :
             TimerStarted(r) =>
                 /\ ConsumeRegular(r)
                 /\ AcceptedWithoutBatch(r)
                 /\ ~timer[r]
                 /\ timerStart'[r] = nextOff[r]]_vars
    /\ [][\A r \in Replicas :
             (ConsumeRegular(r) /\ timer[r] /\ timer'[r]) =>
                 timerStart'[r] = timerStart[r]]_vars
    /\ [][\A r \in Replicas :
             (/\ ConsumeRegular(r) \/ RangeNext(r)
              /\ Len(ledger'[r]) > Len(ledger[r])
              /\ loopPc'[r] = "select") => ~timer'[r]]_vars
    /\ [][\A r \in Replicas : RangeNext(r) => ~TimerStarted(r)]_vars
    /\ [](\A r \in Replicas :
             (loopPc[r] = "select" /\ timer[r] /\ Len(Written(r)) > 0) =>
                 Written(r)[Len(Written(r))].meta[1] < timerStart[r])

\* A timer started by one Regular message is still pending, unchanged, after
\* a second accepted Regular message joined the pending batch.
C14_Witness ==
    \E r \in Replicas :
        /\ loopPc[r] = "select" /\ timer[r]
        /\ Len(pending[r]) = 2
        /\ timerStart[r] = nextOff[r] - 2
        /\ partition[nextOff[r]].type = "Regular"

(***************************************************************************)
(* C15: a Start that fails to publish Connect or to construct the consumer *)
(* leaves halted true and the exit signal closed, with neither the error   *)
(* drain nor the event loop started and no block written; and in every     *)
(* interleaving of Halt calls with a failing Start no close of the exit    *)
(* signal hits a channel that is already closed.                           *)
(***************************************************************************)
FailedStartMarksHalted ==
    \A r \in Replicas :
        startPc[r] = "failed" =>
            /\ halted[r] /\ exitChan[r] = "closed"
            /\ loopPc[r] = "none" /\ listenPc[r] = "none"
            /\ Written(r) = <<>>

C15_FailingStartClosesOnce ==
    /\ FailedStartMarksHalted
    /\ \A r \in Replicas :
           startPc[r] \in {"failClose", "failHalt", "failed"} => panicBy[r] = "none"

(***************************************************************************)
(* C16: when the event loop exits, the consumer is closed, then the        *)
(* producer, then halted is set, then the halted-signal channel is closed: *)
(* on a chain whose loop ran, the producer is closed only after the        *)
(* consumer, halted is true only after the producer is closed, and the     *)
(* halted-signal channel is closed only after halted is true.              *)
(***************************************************************************)
C16_CleanupOrder ==
    \A r \in Replicas :
        loopPc[r] # "none" =>
            /\ producer[r] = "closed" => consumer[r] = "closed"
            /\ halted[r] => producer[r] = "closed"
            /\ haltedChan[r] = "closed" => halted[r]

(***************************************************************************)
(* C17: after a successful Start the error-drain task does not terminate   *)
(* before the exit signal is closed, so that while the exit signal is open *)
(* the task is there to receive every error the consumer emits; and an     *)
(* error never makes the event loop leave its select.                      *)
(***************************************************************************)
C17_ErrorDrainRunsUntilExit ==
    \A r \in Replicas :
        /\ listenPc[r] = "done" => exitChan[r] = "closed"
        /\ (startPc[r] = "done" /\ exitChan[r] = "open") => loopPc[r] = "select"

(***************************************************************************)
(* C18: Enqueue is ingress only.  A call that finds halted true on entry   *)
(* returns false without publishing; otherwise it makes one publish        *)
(* attempt, of one Regular message wrapping the envelope, and a failed     *)
(* attempt returns false with nothing published and no retry; after a      *)
(* successful publish it returns true exactly when halted is still false.  *)
(* No step of Enqueue changes last_cut_block, the timer, the block cutter  *)
(* or the ledger.                                                          *)
(***************************************************************************)
EnqueuePublishes(r, c) == \E env \in IngressEnvelopes : EnqueueSend(r, c, env)

C18_EnqueueIngressOnly ==
    [][\A r \in Replicas : \A c \in EnqueueCallers(r) :
          /\ EnqueueEntry(r, c) =>
                 /\ partition' = partition
                 /\ enqPc'[r][c] = IF halted[r] THEN "false" ELSE "send"
          /\ EnqueuePublishes(r, c) =>
                 \/ partition' = partition /\ enqPc'[r][c] = "false"
                 \/ /\ \E env \in IngressEnvelopes :
                           partition' = Append(partition, newRegularMessage(env))
                    /\ enqPc'[r][c] = "sent"
          /\ EnqueueReturn(r, c) =>
                 /\ partition' = partition
                 /\ enqPc'[r][c] = IF halted[r] THEN "false" ELSE "true"
          /\ enqPc'[r][c] # enqPc[r][c] =>
                 /\ \/ enqPc[r][c] \in {"idle", "true", "false"} /\ EnqueueEntry(r, c)
                    \/ enqPc[r][c] = "send" /\ EnqueuePublishes(r, c)
                    \/ enqPc[r][c] = "sent" /\ EnqueueReturn(r, c)
                 /\ lastCutBlock'[r] = lastCutBlock[r]
                 /\ timer'[r] = timer[r]
                 /\ pending'[r] = pending[r]
                 /\ ledger'[r] = ledger[r]]_vars

\* The publish of an Enqueue call succeeded, and halted has become true
\* before the call reads it again: the call is about to return false.
C18_Witness ==
    \E r \in Replicas : \E c \in EnqueueCallers(r) :
        /\ enqPc[r][c] = "sent" /\ halted[r]
        /\ \E i \in 1..Len(partition) :
               partition[i].type = "Regular" /\ partition[i].payload \in IngressEnvelopes

(***************************************************************************)
(* C19: whenever the loop waits with envelopes pending in the block        *)
(* cutter, a batch timer is pending or an unconsumed                       *)
(* TimeToCut{last_cut_block + 1} is in the partition; in particular right  *)
(* after a Regular message produced a batch and left envelopes pending.    *)
(* (Otherwise nothing the driver does brings the pending envelopes into a  *)
(* block unless a further Regular message arrives.)                        *)
(***************************************************************************)
CutTriggerAhead(part, noff, lcb) ==
    \E i \in (noff + 1)..Len(part) : part[i] = newTimeToCutMessage(lcb + 1)

C19_PendingHasCutTrigger ==
    [][\A r \in Replicas :
          (/\ ConsumeRegular(r) \/ RangeNext(r)
           /\ Len(ledger'[r]) > Len(ledger[r])
           /\ pending'[r] # <<>>
           /\ loopPc'[r] = "select")
          => (timer'[r] \/ CutTriggerAhead(partition', nextOff'[r], lastCutBlock'[r]))]_vars

(***************************************************************************)
(* C20: when every TimeToCut of the partition was posted by the timer of a *)
(* replica and no replica restarts, every TimeToCut{N} a replica consumes  *)
(* has N <= last_cut_block + 1, with envelopes pending when                *)
(* N = last_cut_block + 1: no loop exits.  Whenever a replica waits with   *)
(* its timer pending its block cutter holds pending envelopes.             *)
(***************************************************************************)
C20_TimerTimeToCutNeverAnomalous ==
    /\ [][\A r \in Replicas : ConsumeTimeToCut(r) => ~AnomalousTimeToCut(r)]_vars
    /\ [](\A r \in Replicas :
             /\ loopPc[r] \in {"none", "select", "range"}
             /\ (loopPc[r] = "select" /\ timer[r]) => pending[r] # <<>>)

\* The timers of both replicas posted TimeToCut{1}; a replica has consumed
\* both, the first cutting block 1 and the second being stale, and runs on.
C20_Witness ==
    \E r \in Replicas :
        \E i \in 1..Len(partition) : \E j \in 1..Len(partition) :
            /\ i < j /\ j = nextOff[r]
            /\ partition[i] = newTimeToCutMessage(1)
            /\ partition[j] = newTimeToCutMessage(1)
            /\ Pairs(r) = << <<1, <<OffsetOf(i)>> >> >>
            /\ loopPc[r] = "select"

====
